---- MODULE Spec2Model ----
(***************************************************************************)
(* A state-machine model of the GoCharting SDK demo:                       *)
(*   - the paper-trading ledger of ChartSDKAdvanced (order book, trade     *)
(*     book, positions, order history, broker data sent to the chart);     *)
(*   - the mount / init-timer / createChart / onReady / unmount life cycle *)
(*     of the four chart host components;                                  *)
(*   - the demo datafeed: getBars and the tick streaming sockets.          *)
(*                                                                         *)
(* Conventions.  A JavaScript value that is undefined, null, 0 or "" is    *)
(* falsy; every place the code reads an optional field it does so with     *)
(* `a || b` or `a && ...`, so an absent number is modelled as 0, an absent *)
(* string as "" and an absent order id as <<>>.  Generated ids            *)
(* (`ORDER_<time>_<random>` ...) are modelled as <<prefix, n>> with n a    *)
(* fresh counter value.  Sizes and prices are integers.                    *)
(***************************************************************************)
EXTENDS Integers, Sequences, FiniteSets, TLC

VARIABLES
    \* ---- the paper-trading ledger of ChartSDKAdvanced and of ChartSDK ----
    host,                 \* the component the page shows
    chartWrapperRef,      \* chartWrapperRef.current / widgetRef.current:
                          \* "null" or "chart"
    chartReady,           \* the SDK has called onReady
    currentOrderBook,     \* currentOrderBook.current
    currentTradeBook,     \* currentTradeBook.current
    currentPositions,     \* currentPositions.current
    currentAccountList,   \* currentAccountList.current
    orderHistory,         \* React state orderHistory
    brokerDataSent,       \* <<argument of the last setBrokerAccounts call>>,
                          \* <<>> before the first call
    idCounter,            \* number of ids generated so far
    clock,                \* number of handlers run so far (the wall clock)
    lastEvent,            \* the handler that ran last, with its input
    \* ---- life cycle of a chart host component ----
    lifeHost,             \* the component mounted
    phase,                \* "initial", "mounted" or "unmounted"
    timer,                \* the 100 ms timer: "none", "pending", "fired", "cleared"
    isMounted,            \* closure flag of the effect (ChartDemo, MultiBasicChart)
    chartCreated,         \* closure flag of ChartDemo's effect
    wrapperRef,           \* chartWrapperRef.current / widgetRef.current, 0 = null
    instanceRef,          \* chartInstanceRef.current of MultiBasicChart, 0 = null
    isChartReady,         \* React state of ChartDemo
    created,              \* charts createChart has returned
    destroyed,            \* charts destroy() was called on
    readyDone,            \* charts whose onReady was delivered
    datafeedRef,          \* datafeedRef.current, 0 = null
    feedsCreated,         \* datafeeds createChartDatafeed has returned
    feedsDestroyed,       \* datafeeds destroy() was called on
    shownSymbol,          \* React state currentSymbol
    lifeLast,             \* the handler that ran last, with what it did
    mounts,               \* pages shown so far
    \* ---- one datafeed: getBars ----
    barsCall,             \* the arguments of the getBars call in progress
    barsPhase,            \* "idle", "fetch", "json" or "settled"
    barsRequest,          \* the kline request last sent to Bybit
    barsBody,             \* the body of the response last read
    barsFailure,          \* what went wrong inside the try block, "none" if nothing
    barsResult,           \* how the promise getBars returned has settled
    barsCalls,            \* getBars calls made so far
    \* ---- one datafeed: realtime streaming ----
    channelToSubscription, \* the Map, in insertion order (null is the empty Map)
    demoSocket,           \* index into sockets, 0 = null
    sockets,              \* every socket the datafeed has created
    streamingIntervals,   \* the live setInterval timers, by key
    timeouts,             \* the pending 100 ms setTimeout callbacks
    symbolCache,          \* names in the symbol cache
    searchSymbolController, \* "null", "active" or "aborted"
    destroyedFeed,        \* destroy() has returned
    streamCalls,          \* calls the chart has made on the datafeed
    delivered,            \* steps that invoked a realtime callback
    lastCallbacks,        \* the callbacks the last step invoked
    \* ---- generateDemoData: one call ----
    demoCall,             \* from, to (milliseconds) and resolution
    demoDone,             \* the call has returned
    demoBars              \* the bars it returned

ledgerVars == <<host, chartWrapperRef, chartReady, currentOrderBook, currentTradeBook,
                currentPositions, currentAccountList, orderHistory,
                brokerDataSent, idCounter, clock, lastEvent>>

lifeVars == <<lifeHost, phase, timer, isMounted, chartCreated, wrapperRef,
              instanceRef, isChartReady, created, destroyed, readyDone,
              datafeedRef, feedsCreated, feedsDestroyed, shownSymbol, lifeLast,
              mounts>>

barsVars == <<barsCall, barsPhase, barsRequest, barsBody, barsFailure,
              barsResult, barsCalls>>

streamVars == <<channelToSubscription, demoSocket, sockets,
                streamingIntervals, timeouts, symbolCache,
                searchSymbolController, destroyedFeed, streamCalls,
                delivered, lastCallbacks>>

demoVars == <<demoCall, demoDone, demoBars>>

vars == <<ledgerVars, lifeVars, barsVars, streamVars, demoVars>>

\* what the handlers of the ledger leave alone
notLedger == <<lifeVars, barsVars, streamVars, demoVars>>

\* what the steps of a component's life cycle leave alone
notLife == <<ledgerVars, barsVars, streamVars, demoVars>>

\* what getBars leaves alone
notBars == <<ledgerVars, lifeVars, streamVars, demoVars>>

\* what the streaming side of the datafeed leaves alone
notStream == <<ledgerVars, lifeVars, barsVars, demoVars>>

\* what a call of generateDemoData leaves alone
notDemo == <<ledgerVars, lifeVars, barsVars, streamVars>>

\* generateDemoData has not been called
DemoIdle ==
    /\ demoCall = [from |-> 0, to |-> 0,
                   resolution |-> [kind |-> "null", chars |-> <<>>,
                                   scale |-> "", units |-> ""]]
    /\ demoDone = FALSE
    /\ demoBars = <<>>

\* the datafeed as createChartDatafeed returns it
StreamIdle ==
    /\ channelToSubscription = <<>>
    /\ demoSocket = 0
    /\ sockets = <<>>
    /\ streamingIntervals = {}
    /\ timeouts = {}
    /\ symbolCache = {}
    /\ searchSymbolController = "null"
    /\ destroyedFeed = FALSE
    /\ streamCalls = 0
    /\ delivered = 0
    /\ lastCallbacks = {}

\* no getBars call has been made
NoBarsCall == [symbolInfo |-> [exchange |-> "", symbol |-> ""],
               resolution |-> [kind |-> "null", chars |-> <<>>,
                               scale |-> "", units |-> ""],
               from |-> 0, to |-> 0, firstDataRequest |-> FALSE]

NoBarsRequest == [symbol |-> "", interval |-> "", ranged |-> FALSE,
                  start |-> 0, end |-> 0]

NoBarsBody == [json |-> FALSE, isNull |-> FALSE, hasList |-> FALSE,
               list |-> <<>>]

NoBarsResult == [outcome |-> "pending", s |-> "", t |-> <<>>, origin |-> ""]

BarsIdle ==
    /\ barsCall = NoBarsCall
    /\ barsPhase = "idle"
    /\ barsRequest = NoBarsRequest
    /\ barsBody = NoBarsBody
    /\ barsFailure = "none"
    /\ barsResult = NoBarsResult
    /\ barsCalls = 0

-----------------------------------------------------------------------------
(* Bounds *)

\* handlers run in one behaviour of the ledger
MaxEvents == 3

-----------------------------------------------------------------------------
(* JavaScript helpers *)

Min(a, b) == IF a < b THEN a ELSE b

Abs(x) == IF x < 0 THEN -x ELSE x

\* a || b on numbers
OrNum(a, b) == IF a # 0 THEN a ELSE b

\* a || b on strings
OrStr(a, b) == IF a # "" THEN a ELSE b

\* a || b on order ids
OrId(a, b) == IF a # <<>> THEN a ELSE b

\* String.prototype.toLowerCase on the order-type strings that occur
ToLowerCase(s) ==
    CASE s = "MARKET" -> "market"
      [] s = "Market" -> "market"
      [] s = "LIMIT"  -> "limit"
      [] OTHER        -> s

\* s.replace("BYBIT:FUTURE:", "") on the symbol strings that occur
StripFuturePrefix(s) ==
    CASE s = "BYBIT:FUTURE:BTCUSDT" -> "BTCUSDT"
      [] s = "BYBIT:FUTURE:ETHUSDT" -> "ETHUSDT"
      [] OTHER                      -> s

RECURSIVE Gcd(_, _)
Gcd(a, b) == IF b = 0 THEN a ELSE Gcd(b, a % b)

\* a price that is a quotient of integers, in lowest terms
Rat(n, d) ==
    LET g == Gcd(Abs(n), Abs(d))
    IN  IF g = 0 THEN [n |-> n, d |-> d] ELSE [n |-> n \div g, d |-> d \div g]

-----------------------------------------------------------------------------
(* ChartSDKAdvanced: constants of the component *)

DefaultSymbol == "BYBIT:FUTURE:BTCUSDT"

getCurrentLTP == 110000

HistoryLimit == 10

DemoAccount == [id |-> "DEMO_001", currency |-> "USD", balance |-> 100000]

InitialHistoryItem ==
    [timestamp |-> 0, side |-> "buy", quantity |-> 100, symbol |-> "BTCUSDT",
     orderType |-> "market", limitPrice |-> 0, stopLoss |-> 0,
     takeProfit |-> 0, status |-> "Filled"]

\* orderData.order || {} and orderData.security || {} when absent
NoOrderDetails ==
    [orderId |-> <<>>, price |-> 0, size |-> 0, quantity |-> 0,
     productId |-> "", orderType |-> "", side |-> "", takeProfit |-> 0,
     stopLoss |-> 0, stopPrice |-> 0, symbol |-> ""]

NoSecurity == [symbol |-> "", full_name |-> "", exchange |-> ""]

NoOrderInput ==
    [order |-> NoOrderDetails, security |-> NoSecurity, orderId |-> <<>>,
     price |-> 0, size |-> 0, quantity |-> 0, symbol |-> "", orderType |-> "",
     type |-> "", side |-> "", takeProfit |-> 0, stopLoss |-> 0,
     stopPrice |-> 0, ltp |-> 0]

-----------------------------------------------------------------------------
(* ChartSDKAdvanced: array helpers *)

\* Array.prototype.findIndex, 1-based; 0 stands for -1
FindIndex(hits) ==
    IF hits = {} THEN 0 ELSE CHOOSE i \in hits : \A j \in hits : i <= j

\* Array.prototype.splice(i, 1)
SpliceOne(seq, i) == SubSeq(seq, 1, i - 1) \o SubSeq(seq, i + 1, Len(seq))

\* the ledger as one value: what the handlers below read and write
Ledger ==
    [book |-> currentOrderBook, trades |-> currentTradeBook,
     positions |-> currentPositions, hist |-> orderHistory,
     ids |-> idCounter, sent |-> brokerDataSent]

\* the BrokerAccountData built from the refs
BrokerData(L) ==
    [accountList |-> currentAccountList, orderBook |-> L.book,
     tradeBook |-> L.trades, positions |-> L.positions]

\* mutant: the entry is put at the tail, [...prev, orderItem].slice(0, 10)
AddOrderToHistory_AtTail(L, orderItem) ==
    [L EXCEPT !.hist = SubSeq(L.hist \o <<orderItem>>, 1,
                              Min(Len(L.hist) + 1, HistoryLimit))]

\* setOrderHistory((prev) => [orderItem, ...prev].slice(0, 10))
AddOrderToHistory(L, orderItem) ==
    [L EXCEPT !.hist = SubSeq(<<orderItem>> \o L.hist, 1,
                              Min(Len(L.hist) + 1, HistoryLimit))]

\* updateChartBrokerData: a no-op without a chart, else setBrokerAccounts
UpdateChartBrokerData(L) ==
    IF chartWrapperRef = "null" THEN L
    ELSE [L EXCEPT !.sent = <<BrokerData(L)>>]

-----------------------------------------------------------------------------
(* ChartSDKAdvanced: placing an order *)

\* the Order object built by addOrderToOrderBook (lines 392-481)
NewOrder(orderData, freshId) ==
    LET order    == orderData.order
        security == orderData.security
        orderSize ==
            OrNum(OrNum(OrNum(order.size, order.quantity), orderData.quantity),
                  orderData.size)
    IN  [orderId   |-> OrId(OrId(order.orderId, orderData.orderId), freshId),
         status    |-> "open",
         price     |-> OrNum(order.price, orderData.price),
         size      |-> orderSize,
         productId |-> OrStr(OrStr(OrStr(order.productId, security.full_name),
                                   orderData.symbol), DefaultSymbol),
         remainingSize |-> orderSize,
         orderType |-> OrStr(OrStr(OrStr(order.orderType, orderData.orderType),
                                   orderData.type), "limit"),
         side      |-> OrStr(OrStr(order.side, orderData.side), "buy"),
         fillPrice |-> 0,
         filledSize |-> 0,
         exchange  |-> OrStr(security.exchange, "BYBIT"),
         symbol    |-> StripFuturePrefix(
                          OrStr(OrStr(OrStr(security.symbol, order.symbol),
                                      orderData.symbol), DefaultSymbol)),
         takeProfit |-> OrNum(order.takeProfit, orderData.takeProfit),
         stopLoss  |-> OrNum(order.stopLoss, orderData.stopLoss),
         stopPrice |-> OrNum(order.stopPrice, orderData.stopPrice),
         userTag   |-> <<>>]

\* mutant: the comparison without toLowerCase()
IsMarketOrder_CaseSensitive(orderData) ==
    OrStr(orderData.order.orderType, orderData.orderType) = "market"

\* isMarketOrder of addOrderToOrderBook (lines 486-488)
IsMarketOrder(orderData) ==
    ToLowerCase(OrStr(orderData.order.orderType, orderData.orderType)) = "market"

\* mutant: the size without the sign of the side
OrderSizeWithSign_Unsigned(newOrder) == newOrder.size

\* orderSizeWithSign of createPositionAndTrade (lines 553-556)
OrderSizeWithSign(newOrder) ==
    IF newOrder.side = "sell" THEN -newOrder.size ELSE newOrder.size

\* the position list after the fill of newOrder at executionPrice (lines 545-625)
UpdatePositions(positions, newOrder, executionPrice, positionId) ==
    LET Same(pos) == pos.productId = newOrder.productId
                     /\ pos.symbol = newOrder.symbol
        existingPositionIndex == FindIndex({i \in DOMAIN positions : Same(positions[i])})
        orderSizeWithSign == OrderSizeWithSign(newOrder)
    IN  IF existingPositionIndex # 0
        THEN LET existingPosition == positions[existingPositionIndex]
                 oldSize  == existingPosition.size
                 oldPrice == existingPosition.price
                 isSameDirection ==
                     (oldSize > 0 /\ orderSizeWithSign > 0)
                     \/ (oldSize < 0 /\ orderSizeWithSign < 0)
                 totalSize == oldSize + orderSizeWithSign
             IN  IF isSameDirection
                 THEN [positions EXCEPT ![existingPositionIndex] =
                         [existingPosition EXCEPT
                            !.size = totalSize,
                            !.price = Rat(oldPrice.n * Abs(oldSize)
                                          + Abs(executionPrice * orderSizeWithSign)
                                            * oldPrice.d,
                                          oldPrice.d * Abs(totalSize)),
                            !.size_currency = Abs(totalSize)]]
                 ELSE IF Abs(totalSize) = 0
                      THEN SpliceOne(positions, existingPositionIndex)
                      ELSE [positions EXCEPT ![existingPositionIndex] =
                              [existingPosition EXCEPT
                                 !.size = totalSize,
                                 !.size_currency = Abs(totalSize)]]
        ELSE Append(positions,
                    [id |-> positionId,
                     productId |-> newOrder.productId,
                     symbol |-> newOrder.symbol,
                     size |-> orderSizeWithSign,
                     size_currency |-> Abs(newOrder.size),
                     price |-> Rat(executionPrice, 1),
                     exchange |-> newOrder.exchange])

\* createPositionAndTrade: newOrder is the last element of the book
CreatePositionAndTrade(L, ltp) ==
    LET newOrder == L.book[Len(L.book)]
        executionPrice == ltp
        newTrade == [tradeId |-> <<"TRADE", L.ids + 1>>,
                     orderId |-> newOrder.orderId,
                     symbol  |-> newOrder.symbol,
                     side    |-> newOrder.side,
                     price   |-> executionPrice,
                     size    |-> newOrder.size]
        Same(pos) == pos.productId = newOrder.productId
                     /\ pos.symbol = newOrder.symbol
        isNew == FindIndex({i \in DOMAIN L.positions : Same(L.positions[i])}) = 0
    IN  [L EXCEPT
           !.trades = Append(@, newTrade),
           !.positions = UpdatePositions(@, newOrder, executionPrice,
                                         <<"POS", L.ids + 2>>),
           !.ids = IF isNew THEN @ + 2 ELSE @ + 1,
           !.book = [@ EXCEPT ![Len(@)] =
                       [newOrder EXCEPT !.status = "filled",
                                        !.filledSize = newOrder.size,
                                        !.remainingSize = 0,
                                        !.fillPrice = executionPrice]]]

\* placeTPSLOrder: one more open order for the level, and its history entry
PlaceTPSLOrder(L, originalOrder, order, type) ==
    LET isTP  == type = "takeProfit"
        price == IF isTP THEN order.takeProfit ELSE order.stopLoss
        tpslOrderId ==
            <<IF isTP THEN "TAKEPROFIT" ELSE "STOPLOSS", L.ids + 1>>
        tpslOrder ==
            [orderId   |-> tpslOrderId,
             status    |-> "open",
             price     |-> IF isTP THEN price ELSE 0,
             size      |-> originalOrder.size,
             productId |-> originalOrder.productId,
             remainingSize |-> originalOrder.size,
             orderType |-> IF isTP THEN "limit" ELSE "stop",
             side      |-> IF originalOrder.side = "buy" THEN "sell" ELSE "buy",
             fillPrice |-> 0,
             filledSize |-> 0,
             exchange  |-> originalOrder.exchange,
             symbol    |-> originalOrder.symbol,
             takeProfit |-> 0,
             stopLoss  |-> 0,
             stopPrice |-> IF isTP THEN 0 ELSE price,
             userTag   |-> <<type, originalOrder.orderId>>]
    IN  AddOrderToHistory(
            [L EXCEPT !.book = Append(@, tpslOrder), !.ids = @ + 1],
            [timestamp |-> clock + 1, side |-> tpslOrder.side,
             quantity |-> tpslOrder.size, symbol |-> tpslOrder.symbol,
             orderType |-> tpslOrder.orderType,
             limitPrice |-> IF isTP THEN price ELSE 0,
             stopLoss |-> IF isTP THEN 0 ELSE price,
             takeProfit |-> 0, status |-> "Open"])

\* handleMarketOrderWithTPSL: reads the levels of the nested order object
HandleMarketOrderWithTPSL(L, newOrder, order) ==
    LET hasTP == order.takeProfit # 0 /\ order.takeProfit > 0
        hasSL == order.stopLoss # 0 /\ order.stopLoss > 0
        L1 == IF hasTP THEN PlaceTPSLOrder(L, newOrder, order, "takeProfit")
              ELSE L
    IN  IF hasSL THEN PlaceTPSLOrder(L1, newOrder, order, "stopLoss") ELSE L1

\* addOrderToOrderBook
AddOrderToOrderBook(L, orderData) ==
    IF chartWrapperRef = "null" THEN L
    ELSE
    LET order == orderData.order
        ltp   == OrNum(orderData.ltp, getCurrentLTP)
        generated == OrId(order.orderId, orderData.orderId) = <<>>
        newOrder == NewOrder(orderData, <<"ORDER", L.ids + 1>>)
        L1 == [L EXCEPT !.book = Append(@, newOrder),
                        !.ids = IF generated THEN @ + 1 ELSE @]
        isMarketOrder == IsMarketOrder(orderData)
        L2 == IF isMarketOrder THEN CreatePositionAndTrade(L1, ltp) ELSE L1
        filledOrder == L2.book[Len(L1.book)]
        L3 == IF isMarketOrder
              THEN HandleMarketOrderWithTPSL(L2, filledOrder, order)
              ELSE L2
        L4 == AddOrderToHistory(L3,
                [timestamp |-> clock + 1, side |-> filledOrder.side,
                 quantity |-> filledOrder.size, symbol |-> filledOrder.symbol,
                 orderType |-> filledOrder.orderType,
                 limitPrice |-> IF filledOrder.price > 0
                                THEN filledOrder.price ELSE 0,
                 stopLoss |-> filledOrder.stopLoss,
                 takeProfit |-> filledOrder.takeProfit,
                 status |-> IF isMarketOrder THEN "Filled" ELSE "Open"])
    IN  UpdateChartBrokerData(L4)

-----------------------------------------------------------------------------
(* ChartSDKAdvanced: cancelling, modifying, resetting *)

\* removeOrderFromOrderBook
RemoveOrderFromOrderBook(L, orderId) ==
    LET Hit(order) == order.orderId = orderId
        orderIndex == FindIndex({i \in DOMAIN L.book : Hit(L.book[i])})
    IN  IF orderIndex # 0
        THEN LET removedOrder == L.book[orderIndex]
             IN  UpdateChartBrokerData(
                   AddOrderToHistory(
                     [L EXCEPT !.book = SpliceOne(@, orderIndex)],
                     [timestamp |-> clock + 1, side |-> removedOrder.side,
                      quantity |-> removedOrder.size,
                      symbol |-> removedOrder.symbol,
                      orderType |-> removedOrder.orderType,
                      limitPrice |-> IF removedOrder.price > 0
                                     THEN removedOrder.price ELSE 0,
                      stopLoss |-> 0, takeProfit |-> 0,
                      status |-> "Cancelled"]))
        ELSE L

\* mutant: message.order?.id is not read
CancelOrderId_NoNestedId(message) ==
    OrId(OrId(message.orderId, message.order.orderId), message.id)

\* the id a CANCEL_ORDER message names (lines 346-350)
CancelOrderId(message) ==
    OrId(OrId(OrId(message.orderId, message.order.orderId), message.id),
         message.order.id)

\* case "CANCEL_ORDER" of handleTradingEvent
CancelOrder(L, message) ==
    IF CancelOrderId(message) # <<>>
    THEN RemoveOrderFromOrderBook(L, CancelOrderId(message))
    ELSE L

\* modifyOrderInOrderBook; modifyData.has holds the fields that are defined
ModifyOrderInOrderBook(L, modifyData) ==
    LET orderId == OrId(OrId(modifyData.orderId, modifyData.order.orderId),
                        modifyData.id)
        Hit(o) == o.orderId = orderId
        orderIndex == FindIndex({i \in DOMAIN L.book : Hit(L.book[i])})
    IN  IF orderIndex # 0
        THEN LET order == L.book[orderIndex]
                 o1 == IF "price" \in modifyData.has
                       THEN [order EXCEPT !.price = modifyData.price]
                       ELSE order
                 newSize == OrNum(modifyData.size, modifyData.quantity)
                 o2 == IF "size" \in modifyData.has
                          \/ "quantity" \in modifyData.has
                       THEN [o1 EXCEPT !.size = newSize,
                                       !.remainingSize = newSize - o1.filledSize]
                       ELSE o1
                 o3 == IF "stopLoss" \in modifyData.has
                       THEN [o2 EXCEPT !.stopLoss = modifyData.stopLoss]
                       ELSE o2
                 o4 == IF "takeProfit" \in modifyData.has
                       THEN [o3 EXCEPT !.takeProfit = modifyData.takeProfit]
                       ELSE o3
             IN  UpdateChartBrokerData(
                   AddOrderToHistory(
                     [L EXCEPT !.book = [@ EXCEPT ![orderIndex] = o4]],
                     [timestamp |-> clock + 1, side |-> o4.side,
                      quantity |-> o4.size, symbol |-> o4.symbol,
                      orderType |-> o4.orderType,
                      limitPrice |-> IF o4.price > 0 THEN o4.price ELSE 0,
                      stopLoss |-> o4.stopLoss,
                      takeProfit |-> o4.takeProfit,
                      status |-> "Modified"]))
        ELSE L

\* mutant: the positions are not cleared
ResetBrokerData_KeepsPositions(L) ==
    UpdateChartBrokerData(
        [L EXCEPT !.book = <<>>, !.trades = <<>>, !.hist = <<>>])

\* mutant: updateChartBrokerData is not called
ResetBrokerData_NoUpdate(L) ==
    [L EXCEPT !.book = <<>>, !.trades = <<>>, !.positions = <<>>,
              !.hist = <<>>]

\* handleResetBrokerData
ResetBrokerData(L) ==
    UpdateChartBrokerData(
        [L EXCEPT !.book = <<>>, !.trades = <<>>, !.positions = <<>>,
                  !.hist = <<>>])

\* the orderData built by handleBuyOrder / handleSellOrder from the form
PanelOrderData(side, form) ==
    [NoOrderInput EXCEPT
       !.side = side,
       !.quantity = form.quantity,
       !.orderType = form.orderType,
       !.price = IF form.orderType = "limit" THEN form.limitPrice ELSE 0,
       !.stopLoss = form.stopLoss,
       !.takeProfit = form.takeProfit,
       !.symbol = DefaultSymbol]

-----------------------------------------------------------------------------
(* ChartSDKAdvanced: the inputs the handlers are driven with *)

BTC == "BYBIT:FUTURE:BTCUSDT"

ETH == "BYBIT:FUTURE:ETHUSDT"

\* values of the trading panel's form (quantity, order type, prices)
PanelForms ==
    { [quantity |-> 1, orderType |-> "market", limitPrice |-> 0,
       stopLoss |-> 0, takeProfit |-> 0],
      [quantity |-> 2, orderType |-> "market", limitPrice |-> 0,
       stopLoss |-> 45, takeProfit |-> 55],
      [quantity |-> 1, orderType |-> "limit", limitPrice |-> 50,
       stopLoss |-> 45, takeProfit |-> 0] }

\* a PLACE_ORDER message with the nested order / security objects of the SDK
NestedMessage(side, size, orderType, price, tp, sl, id, full, ltp) ==
    [NoOrderInput EXCEPT
       !.order = [NoOrderDetails EXCEPT
                    !.orderId = id, !.price = price, !.size = size,
                    !.productId = full, !.orderType = orderType,
                    !.side = side, !.takeProfit = tp, !.stopLoss = sl],
       !.security = [symbol |-> StripFuturePrefix(full), full_name |-> full,
                     exchange |-> "BYBIT"],
       !.ltp = ltp]

\* PLACE_ORDER messages of the chart
PlaceMessages ==
    { NestedMessage("buy", 1, "market", 0, 55, 45, <<>>, ETH, 100),
      NestedMessage("sell", 1, "market", 0, 0, 0, <<>>, BTC, 0),
      NestedMessage("buy", 2, "market", 0, 55, -5, <<"MSG", 2>>, BTC, 100),
      NestedMessage("buy", 2, "limit", 50, 0, 0, <<"MSG", 1>>, BTC, 100),
      [NoOrderInput EXCEPT !.side = "sell", !.quantity = 1,
                           !.orderType = "MARKET", !.takeProfit = 55,
                           !.orderId = <<"MSG", 1>>, !.symbol = ETH],
      [NoOrderInput EXCEPT !.size = 1, !.type = "market", !.stopLoss = 45] }

\* the ids of the orders in a book, and one id that no order has
TargetIds(book) == { book[i].orderId : i \in 1..Len(book) } \cup { <<"MSG", 9>> }

NoCancelMessage ==
    [orderId |-> <<>>, order |-> [orderId |-> <<>>, id |-> <<>>], id |-> <<>>]

\* CANCEL_ORDER messages: the id in any of the four places the handler reads
CancelMessages(book) ==
    { NoCancelMessage }
    \cup { [NoCancelMessage EXCEPT !.orderId = id] : id \in TargetIds(book) }
    \cup { [NoCancelMessage EXCEPT !.order.orderId = id] : id \in TargetIds(book) }
    \cup { [NoCancelMessage EXCEPT !.id = id] : id \in TargetIds(book) }
    \cup { [NoCancelMessage EXCEPT !.order.id = id] : id \in TargetIds(book) }

NoModifyMessage ==
    [orderId |-> <<>>, order |-> [orderId |-> <<>>], id |-> <<>>, has |-> {},
     price |-> 0, size |-> 0, quantity |-> 0, stopLoss |-> 0, takeProfit |-> 0]

\* MODIFY_ORDER messages
ModifyMessages(book) ==
    { [NoModifyMessage EXCEPT !.orderId = id, !.has = {"price"}, !.price = 60]
        : id \in TargetIds(book) }
    \cup { [NoModifyMessage EXCEPT !.order.orderId = id, !.has = {"size"},
                                   !.size = 3] : id \in TargetIds(book) }
    \cup { [NoModifyMessage EXCEPT !.id = id,
                                   !.has = {"stopLoss", "takeProfit"},
                                   !.stopLoss = 40, !.takeProfit = 0]
             : id \in TargetIds(book) }

-----------------------------------------------------------------------------
(* ChartSDKAdvanced: the handlers as actions *)

\* the refs and the React state after a handler that computed ledger L
Commit(L, kind, input) ==
    /\ currentOrderBook' = L.book
    /\ currentTradeBook' = L.trades
    /\ currentPositions' = L.positions
    /\ orderHistory' = L.hist
    /\ idCounter' = L.ids
    /\ brokerDataSent' = L.sent
    /\ clock' = clock + 1
    /\ lastEvent' = [kind |-> kind, input |-> input]
    /\ UNCHANGED <<host, chartWrapperRef, chartReady, currentAccountList>>
    /\ UNCHANGED notLedger

\* ChartSDKAdvanced, onReady of the chart config: setupDemoBrokerData, then
\* the ref is set
OnReadyAdvanced ==
    /\ host = "ChartSDKAdvanced"
    /\ ~chartReady
    /\ brokerDataSent' = <<BrokerData(Ledger)>>
    /\ chartWrapperRef' = "chart"
    /\ chartReady' = TRUE
    /\ lastEvent' = [kind |-> "ready", input |-> <<>>]
    /\ UNCHANGED <<host, currentOrderBook, currentTradeBook, currentPositions,
                   currentAccountList, orderHistory, idCounter, clock>>
    /\ UNCHANGED notLedger

HandleBuyOrder(form) ==
    /\ host = "ChartSDKAdvanced"
    /\ Commit(AddOrderToOrderBook(Ledger, PanelOrderData("buy", form)),
              "panel", PanelOrderData("buy", form))

HandleSellOrder(form) ==
    /\ host = "ChartSDKAdvanced"
    /\ Commit(AddOrderToOrderBook(Ledger, PanelOrderData("sell", form)),
              "panel", PanelOrderData("sell", form))

PlaceOrderEvent(message) ==
    /\ host = "ChartSDKAdvanced"
    /\ Commit(AddOrderToOrderBook(Ledger, message), "place", message)

CancelOrderEvent(message) ==
    /\ host = "ChartSDKAdvanced"
    /\ Commit(CancelOrder(Ledger, message), "cancel", message)

ModifyOrderEvent(message) ==
    /\ host = "ChartSDKAdvanced"
    /\ Commit(ModifyOrderInOrderBook(Ledger, message), "modify", message)

HandleResetBrokerData ==
    /\ host = "ChartSDKAdvanced"
    /\ Commit(ResetBrokerData(Ledger), "reset", <<>>)

-----------------------------------------------------------------------------
(* ChartSDK: the basic component's ledger *)

\* the order pushed by placeBuyOrder / placeSellOrder
BasicOrder(side, form, freshId) ==
    [orderId   |-> freshId,
     status    |-> "open",
     price     |-> IF form.orderType = "limit" THEN form.limitPrice ELSE 0,
     size      |-> OrNum(form.quantity, 100),
     productId |-> DefaultSymbol,
     remainingSize |-> OrNum(form.quantity, 100),
     orderType |-> form.orderType,
     side      |-> side,
     exchange  |-> "BYBIT",
     symbol    |-> StripFuturePrefix(DefaultSymbol),
     takeProfit |-> form.takeProfit,
     stopLoss  |-> form.stopLoss]

\* placeBuyOrder / placeSellOrder of ChartSDK: push, then updateChartBrokerData
PlaceBasicOrder(L, side, form) ==
    UpdateChartBrokerData(
        [L EXCEPT !.book = Append(@, BasicOrder(side, form,
                                                <<"ORDER", L.ids + 1>>)),
                  !.ids = @ + 1])

\* resetBroker of ChartSDK
ResetBroker(L) ==
    UpdateChartBrokerData(
        [L EXCEPT !.book = <<>>, !.trades = <<>>, !.positions = <<>>])

\* ChartSDK, initializeChart: widgetRef.current = createChart(...)
InitializeChartBasic ==
    /\ host = "ChartSDK"
    /\ chartWrapperRef = "null"
    /\ chartWrapperRef' = "chart"
    /\ lastEvent' = [kind |-> "created", input |-> <<>>]
    /\ UNCHANGED <<host, chartReady, currentOrderBook, currentTradeBook,
                   currentPositions, currentAccountList, orderHistory,
                   brokerDataSent, idCounter, clock>>
    /\ UNCHANGED notLedger

\* ChartSDK, onReady: widgetRef.current = chartInstance, setupDemoBrokerData
OnReadyBasic ==
    /\ host = "ChartSDK"
    /\ chartWrapperRef = "chart"
    /\ ~chartReady
    /\ chartReady' = TRUE
    /\ brokerDataSent' = <<BrokerData(Ledger)>>
    /\ lastEvent' = [kind |-> "ready", input |-> <<>>]
    /\ UNCHANGED <<host, chartWrapperRef, currentOrderBook, currentTradeBook,
                   currentPositions, currentAccountList, orderHistory,
                   idCounter, clock>>
    /\ UNCHANGED notLedger

PlaceBuyOrder(form) ==
    /\ host = "ChartSDK"
    /\ Commit(PlaceBasicOrder(Ledger, "buy", form), "basic", form)

PlaceSellOrder(form) ==
    /\ host = "ChartSDK"
    /\ Commit(PlaceBasicOrder(Ledger, "sell", form), "basic", form)

ResetBrokerBasic ==
    /\ host = "ChartSDK"
    /\ Commit(ResetBroker(Ledger), "reset", <<>>)

\* the state after the component's first render; ChartSDK has no order history
LedgerInit ==
    /\ host \in {"ChartSDKAdvanced", "ChartSDK"}
    /\ chartWrapperRef = "null"
    /\ chartReady = FALSE
    /\ currentOrderBook = <<>>
    /\ currentTradeBook = <<>>
    /\ currentPositions = <<>>
    /\ currentAccountList = <<DemoAccount>>
    /\ orderHistory = IF host = "ChartSDKAdvanced"
                      THEN <<InitialHistoryItem>> ELSE <<>>
    /\ brokerDataSent = <<>>
    /\ idCounter = 0
    /\ clock = 0
    /\ lastEvent = [kind |-> "init", input |-> <<>>]

LedgerNext ==
    \/ OnReadyAdvanced
    \/ \E form \in PanelForms : clock < MaxEvents /\ HandleBuyOrder(form)
    \/ \E form \in PanelForms : clock < MaxEvents /\ HandleSellOrder(form)
    \/ \E message \in PlaceMessages :
          clock < MaxEvents /\ PlaceOrderEvent(message)
    \/ \E message \in CancelMessages(currentOrderBook) :
          clock < MaxEvents /\ CancelOrderEvent(message)
    \/ \E message \in ModifyMessages(currentOrderBook) :
          clock < MaxEvents /\ ModifyOrderEvent(message)
    \/ clock < MaxEvents /\ HandleResetBrokerData
    \/ InitializeChartBasic
    \/ OnReadyBasic
    \/ \E form \in PanelForms : clock < MaxEvents /\ PlaceBuyOrder(form)
    \/ \E form \in PanelForms : clock < MaxEvents /\ PlaceSellOrder(form)
    \/ clock < MaxEvents /\ ResetBrokerBasic

-----------------------------------------------------------------------------
(* Life cycle of the chart host components: mount, the init timer,          *)
(* createChart, the SDK's onReady, the symbol buttons, unmount              *)

Hosts == {"ChartSDK", "ChartSDKAdvanced", "ChartDemo", "MultiBasicChart"}

\* pages the router shows after the first one
MaxMounts == 1

Symbols == {"BYBIT:FUTURE:BTCUSDT", "BYBIT:FUTURE:ETHUSDT", "BYBIT:FUTURE:OGNUSDT"}

\* what a call into the SDK can do
SdkOutcomes == {"returns", "throws"}

\* the next chart / datafeed object
NewChart == Cardinality(created) + 1

NewFeed == Cardinality(feedsCreated) + 1

\* chart.isDestroyed()
IsDestroyed(chart) == chart \in destroyed

\* no component is on the page
LifeIdle ==
    /\ lifeHost = "none"
    /\ phase = "initial"
    /\ timer = "none"
    /\ isMounted = FALSE
    /\ chartCreated = FALSE
    /\ wrapperRef = 0
    /\ instanceRef = 0
    /\ isChartReady = FALSE
    /\ created = {}
    /\ destroyed = {}
    /\ readyDone = {}
    /\ datafeedRef = 0
    /\ feedsCreated = {}
    /\ feedsDestroyed = {}
    /\ shownSymbol = "BYBIT:FUTURE:BTCUSDT"
    /\ lifeLast = [kind |-> "init"]
    /\ mounts = 0

\* a component has rendered; its effect has not run yet
LifeInit ==
    /\ lifeHost \in Hosts
    /\ phase = "initial"
    /\ timer = "none"
    /\ isMounted = FALSE
    /\ chartCreated = FALSE
    /\ wrapperRef = 0
    /\ instanceRef = 0
    /\ isChartReady = FALSE
    /\ created = {}
    /\ destroyed = {}
    /\ readyDone = {}
    /\ datafeedRef = 0
    /\ feedsCreated = {}
    /\ feedsDestroyed = {}
    /\ shownSymbol = "BYBIT:FUTURE:BTCUSDT"
    /\ lifeLast = [kind |-> "init"]
    /\ mounts = 0

\* ---- ChartSDK ----

\* useEffect of ChartSDK: setTimeout(initializeChart, 100)
MountChartSDK ==
    /\ lifeHost = "ChartSDK" /\ phase = "initial"
    /\ phase' = "mounted"
    /\ timer' = "pending"
    /\ lifeLast' = [kind |-> "mount"]
    /\ UNCHANGED <<mounts, notLife>>
    /\ UNCHANGED <<lifeHost, isMounted, chartCreated, wrapperRef, instanceRef,
                   isChartReady, created, destroyed, readyDone, datafeedRef,
                   feedsCreated, feedsDestroyed, shownSymbol>>

\* initializeChart of ChartSDK: the datafeed is a local, the chart goes to
\* widgetRef
InitializeChartSDK(outcome) ==
    /\ lifeHost = "ChartSDK" /\ timer = "pending"
    /\ timer' = "fired"
    /\ feedsCreated' = feedsCreated \cup {NewFeed}
    /\ IF outcome = "returns"
       THEN created' = created \cup {NewChart} /\ wrapperRef' = NewChart
       ELSE UNCHANGED <<created, wrapperRef>>
    /\ lifeLast' = [kind |-> "init-chart", outcome |-> outcome]
    /\ UNCHANGED <<mounts, notLife>>
    /\ UNCHANGED <<lifeHost, phase, isMounted, chartCreated, instanceRef,
                   isChartReady, destroyed, readyDone, datafeedRef,
                   feedsDestroyed, shownSymbol>>

\* onReady of ChartSDK: widgetRef.current = chartInstance
OnReadyChartSDK(chart) ==
    /\ lifeHost = "ChartSDK"
    /\ chart \in created \ (readyDone \cup destroyed)
    /\ readyDone' = readyDone \cup {chart}
    /\ wrapperRef' = chart
    /\ lifeLast' = [kind |-> "ready", chart |-> chart]
    /\ UNCHANGED <<mounts, notLife>>
    /\ UNCHANGED <<lifeHost, phase, timer, isMounted, chartCreated, instanceRef,
                   isChartReady, created, destroyed, datafeedRef, feedsCreated,
                   feedsDestroyed, shownSymbol>>

\* cleanup of ChartSDK's effect: clearTimeout, destroy the widget
UnmountChartSDK ==
    /\ lifeHost = "ChartSDK" /\ phase = "mounted"
    /\ phase' = "unmounted"
    /\ timer' = IF timer = "pending" THEN "cleared" ELSE timer
    /\ destroyed' = IF wrapperRef # 0 THEN destroyed \cup {wrapperRef}
                    ELSE destroyed
    /\ lifeLast' = [kind |-> "unmount"]
    /\ UNCHANGED <<mounts, notLife>>
    /\ UNCHANGED <<lifeHost, isMounted, chartCreated, wrapperRef, instanceRef,
                   isChartReady, created, readyDone, datafeedRef, feedsCreated,
                   feedsDestroyed, shownSymbol>>

\* ---- ChartSDKAdvanced ----

\* useEffect of ChartSDKAdvanced: setTimeout(initializeChart, 100)
MountAdvanced ==
    /\ lifeHost = "ChartSDKAdvanced" /\ phase = "initial"
    /\ phase' = "mounted"
    /\ timer' = "pending"
    /\ lifeLast' = [kind |-> "mount"]
    /\ UNCHANGED <<mounts, notLife>>
    /\ UNCHANGED <<lifeHost, isMounted, chartCreated, wrapperRef, instanceRef,
                   isChartReady, created, destroyed, readyDone, datafeedRef,
                   feedsCreated, feedsDestroyed, shownSymbol>>

\* initializeChart of ChartSDKAdvanced: the datafeed goes to datafeedRef, the
\* value createChart returns is dropped
InitializeChartAdvanced(outcome) ==
    /\ lifeHost = "ChartSDKAdvanced" /\ timer = "pending"
    /\ timer' = "fired"
    /\ IF wrapperRef # 0
       THEN UNCHANGED <<feedsCreated, datafeedRef, created>>
       ELSE /\ feedsCreated' = feedsCreated \cup {NewFeed}
            /\ datafeedRef' = NewFeed
            /\ created' = IF outcome = "returns"
                          THEN created \cup {NewChart} ELSE created
    /\ lifeLast' = [kind |-> "init-chart", outcome |-> outcome]
    /\ UNCHANGED <<mounts, notLife>>
    /\ UNCHANGED <<lifeHost, phase, isMounted, chartCreated, wrapperRef,
                   instanceRef, isChartReady, destroyed, readyDone,
                   feedsDestroyed, shownSymbol>>

\* onReady of ChartSDKAdvanced: chartWrapperRef.current = chartInstance
OnReadyChartAdvanced(chart) ==
    /\ lifeHost = "ChartSDKAdvanced"
    /\ chart \in created \ (readyDone \cup destroyed)
    /\ readyDone' = readyDone \cup {chart}
    /\ wrapperRef' = chart
    /\ lifeLast' = [kind |-> "ready", chart |-> chart]
    /\ UNCHANGED <<mounts, notLife>>
    /\ UNCHANGED <<lifeHost, phase, timer, isMounted, chartCreated, instanceRef,
                   isChartReady, created, destroyed, datafeedRef, feedsCreated,
                   feedsDestroyed, shownSymbol>>

\* cleanup of ChartSDKAdvanced's effect
UnmountAdvanced ==
    /\ lifeHost = "ChartSDKAdvanced" /\ phase = "mounted"
    /\ phase' = "unmounted"
    /\ timer' = IF timer = "pending" THEN "cleared" ELSE timer
    /\ destroyed' = IF wrapperRef # 0 /\ ~IsDestroyed(wrapperRef)
                    THEN destroyed \cup {wrapperRef} ELSE destroyed
    /\ wrapperRef' = 0
    /\ feedsDestroyed' = IF datafeedRef # 0
                         THEN feedsDestroyed \cup {datafeedRef}
                         ELSE feedsDestroyed
    /\ datafeedRef' = 0
    /\ lifeLast' = [kind |-> "unmount"]
    /\ UNCHANGED <<mounts, notLife>>
    /\ UNCHANGED <<lifeHost, isMounted, chartCreated, instanceRef, isChartReady,
                   created, readyDone, feedsCreated, shownSymbol>>

\* ---- ChartDemo ----

\* useEffect of ChartDemo: initChart() awaits a 100 ms timer
MountChartDemo ==
    /\ lifeHost = "ChartDemo" /\ phase = "initial"
    /\ phase' = "mounted"
    /\ isMounted' = TRUE
    /\ timer' = "pending"
    /\ lifeLast' = [kind |-> "mount"]
    /\ UNCHANGED <<mounts, notLife>>
    /\ UNCHANGED <<lifeHost, chartCreated, wrapperRef, instanceRef,
                   isChartReady, created, destroyed, readyDone, datafeedRef,
                   feedsCreated, feedsDestroyed, shownSymbol>>

\* the rest of initChart: createChart() if still mounted, then
\* chartCreated = true; the timer is never cleared
InitChartDemo(outcome) ==
    /\ lifeHost = "ChartDemo" /\ timer = "pending"
    /\ timer' = "fired"
    /\ IF isMounted /\ phase = "mounted"
       THEN /\ chartCreated' = TRUE
            /\ IF wrapperRef # 0
               THEN UNCHANGED <<feedsCreated, datafeedRef, created, wrapperRef>>
               ELSE /\ feedsCreated' = feedsCreated \cup {NewFeed}
                    /\ datafeedRef' = NewFeed
                    /\ IF outcome = "returns"
                       THEN /\ created' = created \cup {NewChart}
                            /\ wrapperRef' = NewChart
                       ELSE UNCHANGED <<created, wrapperRef>>
       ELSE UNCHANGED <<chartCreated, feedsCreated, datafeedRef, created,
                        wrapperRef>>
    /\ lifeLast' = [kind |-> "init-chart", outcome |-> outcome]
    /\ UNCHANGED <<mounts, notLife>>
    /\ UNCHANGED <<lifeHost, phase, isMounted, instanceRef, isChartReady,
                   destroyed, readyDone, feedsDestroyed, shownSymbol>>

\* onReady of ChartDemo: setIsChartReady(true)
OnReadyChartDemo(chart) ==
    /\ lifeHost = "ChartDemo"
    /\ chart \in created \ (readyDone \cup destroyed)
    /\ readyDone' = readyDone \cup {chart}
    /\ isChartReady' = TRUE
    /\ lifeLast' = [kind |-> "ready", chart |-> chart]
    /\ UNCHANGED <<mounts, notLife>>
    /\ UNCHANGED <<lifeHost, phase, timer, isMounted, chartCreated, wrapperRef,
                   instanceRef, created, destroyed, datafeedRef, feedsCreated,
                   feedsDestroyed, shownSymbol>>

\* cleanup of ChartDemo's effect
UnmountChartDemo ==
    /\ lifeHost = "ChartDemo" /\ phase = "mounted"
    /\ phase' = "unmounted"
    /\ isMounted' = FALSE
    /\ IF chartCreated /\ wrapperRef # 0
       THEN /\ destroyed' = IF ~IsDestroyed(wrapperRef)
                            THEN destroyed \cup {wrapperRef} ELSE destroyed
            /\ wrapperRef' = 0
            /\ feedsDestroyed' = IF datafeedRef # 0
                                 THEN feedsDestroyed \cup {datafeedRef}
                                 ELSE feedsDestroyed
            /\ datafeedRef' = 0
       ELSE UNCHANGED <<destroyed, wrapperRef, feedsDestroyed, datafeedRef>>
    /\ isChartReady' = FALSE
    /\ lifeLast' = [kind |-> "unmount"]
    /\ UNCHANGED <<mounts, notLife>>
    /\ UNCHANGED <<lifeHost, timer, chartCreated, instanceRef, created,
                   readyDone, feedsCreated, shownSymbol>>

\* changeSymbol with setCurrentSymbol moved in front of the call of setSymbol
ChangeSymbol_SetsBeforeCall(newSymbol, outcome) ==
    /\ lifeHost = "ChartDemo" /\ phase = "mounted" /\ isChartReady
    /\ LET called == wrapperRef # 0 /\ shownSymbol # newSymbol
       IN  /\ shownSymbol' = IF called THEN newSymbol ELSE shownSymbol
           /\ lifeLast' = [kind |-> "symbol", symbol |-> newSymbol,
                           setSymbol |-> called,
                           outcome |-> IF called THEN outcome ELSE "none"]
    /\ UNCHANGED <<mounts, notLife>>
    /\ UNCHANGED <<lifeHost, phase, timer, isMounted, chartCreated, wrapperRef,
                   instanceRef, isChartReady, created, destroyed, readyDone,
                   datafeedRef, feedsCreated, feedsDestroyed>>

\* changeSymbol of ChartDemo; the buttons are disabled until isChartReady
ChangeSymbol(newSymbol, outcome) ==
    /\ lifeHost = "ChartDemo" /\ phase = "mounted" /\ isChartReady
    /\ LET called == wrapperRef # 0 /\ shownSymbol # newSymbol
       IN  /\ shownSymbol' = IF called /\ outcome = "returns"
                             THEN newSymbol ELSE shownSymbol
           /\ lifeLast' = [kind |-> "symbol", symbol |-> newSymbol,
                           setSymbol |-> called,
                           outcome |-> IF called THEN outcome ELSE "none"]
    /\ UNCHANGED <<mounts, notLife>>
    /\ UNCHANGED <<lifeHost, phase, timer, isMounted, chartCreated, wrapperRef,
                   instanceRef, isChartReady, created, destroyed, readyDone,
                   datafeedRef, feedsCreated, feedsDestroyed>>

\* ---- MultiBasicChart ----

\* useEffect of MultiBasicChart: initializeChart() runs at once; the datafeed
\* is a local
MountMultiBasic(outcome) ==
    /\ lifeHost = "MultiBasicChart" /\ phase = "initial"
    /\ phase' = "mounted"
    /\ isMounted' = TRUE
    /\ feedsCreated' = feedsCreated \cup {NewFeed}
    /\ IF outcome = "returns"
       THEN /\ created' = created \cup {NewChart}
            /\ wrapperRef' = IF wrapperRef = 0 THEN NewChart ELSE wrapperRef
       ELSE UNCHANGED <<created, wrapperRef>>
    /\ lifeLast' = [kind |-> "mount", outcome |-> outcome]
    /\ UNCHANGED <<mounts, notLife>>
    /\ UNCHANGED <<lifeHost, timer, chartCreated, instanceRef, isChartReady,
                   destroyed, readyDone, datafeedRef, feedsDestroyed,
                   shownSymbol>>

\* onReady of MultiBasicChart: chartInstanceRef.current = chartInstance
OnReadyMultiBasic(chart) ==
    /\ lifeHost = "MultiBasicChart"
    /\ chart \in created \ (readyDone \cup destroyed)
    /\ readyDone' = readyDone \cup {chart}
    /\ instanceRef' = chart
    /\ lifeLast' = [kind |-> "ready", chart |-> chart]
    /\ UNCHANGED <<mounts, notLife>>
    /\ UNCHANGED <<lifeHost, phase, timer, isMounted, chartCreated, wrapperRef,
                   isChartReady, created, destroyed, datafeedRef, feedsCreated,
                   feedsDestroyed, shownSymbol>>

\* cleanup of MultiBasicChart's effect
UnmountMultiBasic ==
    /\ lifeHost = "MultiBasicChart" /\ phase = "mounted"
    /\ phase' = "unmounted"
    /\ isMounted' = FALSE
    /\ destroyed' = IF wrapperRef # 0 /\ ~IsDestroyed(wrapperRef)
                    THEN destroyed \cup {wrapperRef} ELSE destroyed
    /\ instanceRef' = 0
    /\ wrapperRef' = 0
    /\ lifeLast' = [kind |-> "unmount"]
    /\ UNCHANGED <<mounts, notLife>>
    /\ UNCHANGED <<lifeHost, timer, chartCreated, isChartReady, created,
                   readyDone, datafeedRef, feedsCreated, feedsDestroyed,
                   shownSymbol>>

\* handleSymbolChange of MultiBasicChart
HandleSymbolChange(newSymbol, outcome) ==
    /\ lifeHost = "MultiBasicChart" /\ phase = "mounted"
    /\ LET called == instanceRef # 0 /\ shownSymbol # newSymbol
       IN  /\ shownSymbol' = IF called /\ outcome = "returns"
                             THEN newSymbol ELSE shownSymbol
           /\ lifeLast' = [kind |-> "symbol", symbol |-> newSymbol,
                           setSymbol |-> called,
                           outcome |-> IF called THEN outcome ELSE "none"]
    /\ UNCHANGED <<mounts, notLife>>
    /\ UNCHANGED <<lifeHost, phase, timer, isMounted, chartCreated, wrapperRef,
                   instanceRef, isChartReady, created, destroyed, readyDone,
                   datafeedRef, feedsCreated, feedsDestroyed>>

\* the router shows another page: a fresh component, with fresh refs and
\* closures; what the previous component left behind stays behind
Navigate(nextHost) ==
    /\ phase = "unmounted" /\ mounts < MaxMounts
    /\ mounts' = mounts + 1
    /\ lifeHost' = nextHost
    /\ phase' = "initial"
    /\ timer' = "none"
    /\ isMounted' = FALSE
    /\ chartCreated' = FALSE
    /\ wrapperRef' = 0
    /\ instanceRef' = 0
    /\ isChartReady' = FALSE
    /\ readyDone' = created
    /\ datafeedRef' = 0
    /\ shownSymbol' = "BYBIT:FUTURE:BTCUSDT"
    /\ lifeLast' = [kind |-> "navigate"]
    /\ UNCHANGED <<created, destroyed, feedsCreated, feedsDestroyed, notLife>>

LifeNext ==
    \/ \E nextHost \in Hosts : Navigate(nextHost)
    \/ MountChartSDK
    \/ \E outcome \in SdkOutcomes : InitializeChartSDK(outcome)
    \/ \E chart \in created : OnReadyChartSDK(chart)
    \/ UnmountChartSDK
    \/ MountAdvanced
    \/ \E outcome \in SdkOutcomes : InitializeChartAdvanced(outcome)
    \/ \E chart \in created : OnReadyChartAdvanced(chart)
    \/ UnmountAdvanced
    \/ MountChartDemo
    \/ \E outcome \in SdkOutcomes : InitChartDemo(outcome)
    \/ \E chart \in created : OnReadyChartDemo(chart)
    \/ UnmountChartDemo
    \/ \E newSymbol \in Symbols, outcome \in SdkOutcomes :
          ChangeSymbol(newSymbol, outcome)
    \/ \E outcome \in SdkOutcomes : MountMultiBasic(outcome)
    \/ \E chart \in created : OnReadyMultiBasic(chart)
    \/ UnmountMultiBasic
    \/ \E newSymbol \in Symbols, outcome \in SdkOutcomes :
          HandleSymbolChange(newSymbol, outcome)

\* a page is shown; the order handlers are not driven here
LifeStart == LedgerInit /\ host = "ChartSDKAdvanced" /\ LifeInit /\ BarsIdle /\ StreamIdle /\ DemoIdle

SpecLife == LifeStart /\ [][LifeNext]_vars

\* C3: once the unmount cleanup has run, every chart that createChart
\* returned for the component has had destroy() called on it.
C3_ChartsDestroyedAtUnmount ==
    phase = "unmounted" => created \subseteq destroyed

\* the chart reference the symbol handler of the shown page tests
SymbolChartRef == IF lifeHost = "ChartDemo" THEN wrapperRef ELSE instanceRef

\* a step of changeSymbol / handleSymbolChange
SymbolStep == lifeLast' # lifeLast /\ lifeLast'.kind = "symbol"

\* C11: in MultiBasicChart and ChartDemo setSymbol is called only when the
\* chart reference is set and the requested symbol differs from currentSymbol;
\* currentSymbol becomes the requested symbol only when setSymbol returned,
\* and stays as it was when the chart is not ready, the symbol is already
\* shown, or setSymbol throws.
C11_SetSymbolGuarded ==
    [][SymbolStep =>
        /\ lifeLast'.setSymbol <=>
              (SymbolChartRef # 0 /\ lifeLast'.symbol # shownSymbol)
        /\ shownSymbol' # shownSymbol =>
              /\ shownSymbol' = lifeLast'.symbol
              /\ lifeLast'.setSymbol
              /\ lifeLast'.outcome = "returns"
        /\ (\/ SymbolChartRef = 0
            \/ lifeLast'.symbol = shownSymbol
            \/ lifeLast'.outcome = "throws") => shownSymbol' = shownSymbol
        /\ (lifeLast'.setSymbol /\ lifeLast'.outcome = "returns") =>
              shownSymbol' = lifeLast'.symbol]_vars

\* setSymbol threw on a ready ChartDemo after an earlier switch succeeded:
\* the symbol shown is still the earlier one
C11_Witness ==
    /\ lifeHost = "ChartDemo"
    /\ lifeLast.kind = "symbol"
    /\ lifeLast.setSymbol
    /\ lifeLast.outcome = "throws"
    /\ shownSymbol # lifeLast.symbol
    /\ shownSymbol # "BYBIT:FUTURE:BTCUSDT"

\* C13: once the unmount cleanup of a chart host has run, every datafeed the
\* component created with createChartDatafeed() has had destroy() called.
C13_FeedsDestroyedAtUnmount ==
    phase = "unmounted" => feedsCreated \subseteq feedsDestroyed

-----------------------------------------------------------------------------
(* The datafeed: getBars, getBybitBars, generateDemoData, convertToUDFFormat *)
(* Times are whole seconds; a Date is its getTime() in milliseconds.         *)
(* A resolution string is the sequence of its characters.                    *)

\* getBars calls in a run
MaxCalls == 2

Digits == {"0", "1", "2", "3", "4", "5", "6", "7", "8", "9"}

DigitValue(c) ==
    CASE c = "0" -> 0 [] c = "1" -> 1 [] c = "2" -> 2 [] c = "3" -> 3
      [] c = "4" -> 4 [] c = "5" -> 5 [] c = "6" -> 6 [] c = "7" -> 7
      [] c = "8" -> 8 [] c = "9" -> 9

\* the run of digits a string starts with
RECURSIVE LeadingDigits(_)
LeadingDigits(chars) ==
    IF chars = <<>> \/ Head(chars) \notin Digits THEN <<>>
    ELSE <<Head(chars)>> \o LeadingDigits(Tail(chars))

RECURSIVE DigitsValue(_)
DigitsValue(ds) ==
    IF ds = <<>> THEN 0
    ELSE DigitsValue(SubSeq(ds, 1, Len(ds) - 1)) * 10 + DigitValue(ds[Len(ds)])

\* parseInt of a string without sign or blanks
ParseInt(chars) ==
    LET ds == LeadingDigits(chars)
    IN  [nan |-> ds = <<>>, value |-> DigitsValue(ds)]

\* a resolution as the SDK passes it
ResString(chars) ==
    [kind |-> "string", chars |-> chars, scale |-> "", units |-> ""]

ResObject(scale, units) ==
    [kind |-> "object", chars |-> <<>>, scale |-> scale, units |-> units]

ResNone == [kind |-> "null", chars |-> <<>>, scale |-> "", units |-> ""]

\* intervalMap of convertIntervalToResolution; an unknown interval is 1D
ConvertIntervalToResolution(intervalString) ==
    CASE intervalString = <<"1", "m">> ->
           [scale |-> "1", units |-> "minutes", label |-> "1"]
      [] intervalString = <<"5", "m">> ->
           [scale |-> "5", units |-> "minutes", label |-> "5"]
      [] intervalString = <<"1", "5", "m">> ->
           [scale |-> "15", units |-> "minutes", label |-> "15"]
      [] intervalString = <<"3", "0", "m">> ->
           [scale |-> "30", units |-> "minutes", label |-> "30"]
      [] intervalString = <<"1", "h">> ->
           [scale |-> "1", units |-> "hours", label |-> "60"]
      [] intervalString = <<"4", "h">> ->
           [scale |-> "4", units |-> "hours", label |-> "240"]
      [] intervalString = <<"1", "D">> ->
           [scale |-> "1", units |-> "days", label |-> "D"]
      [] intervalString = <<"1", "W">> ->
           [scale |-> "1", units |-> "weeks", label |-> "W"]
      [] intervalString = <<"1", "M">> ->
           [scale |-> "1", units |-> "months", label |-> "M"]
      [] OTHER -> [scale |-> "1", units |-> "days", label |-> "D"]

\* deriveIntervalLabel for the scales in use; numbers are written in decimal
DeriveIntervalLabel(scale, units) ==
    CASE units = "minutes" -> scale
      [] units = "hours" -> (CASE scale = "1" -> "60" [] scale = "4" -> "240"
                               [] OTHER -> "NaN")
      [] units = "days" -> (IF scale = "1" THEN "D" ELSE "?D")
      [] units = "weeks" -> (IF scale = "1" THEN "W" ELSE "?W")
      [] units = "months" -> (IF scale = "1" THEN "M" ELSE "?M")
      [] OTHER -> "D"

\* the Bybit interval of getBybitBars; for an object the two fields are read
\* crosswise (scale = resolution.units, units = resolution.scale)
BybitInterval(resolution) ==
    IF resolution.kind = "string"
    THEN ConvertIntervalToResolution(resolution.chars).label
    ELSE DeriveIntervalLabel(resolution.units, resolution.scale)

\* generateDemoData: the bar period in seconds
DemoInterval(resolution) ==
    IF resolution.kind = "string" /\ ~ParseInt(resolution.chars).nan
    THEN ParseInt(resolution.chars).value * 60
    ELSE 86400

\* generateDemoData: the while loop; a bar is its time
RECURSIVE DemoLoop(_, _, _)
DemoLoop(currentTime, endTime, interval) ==
    IF currentTime < endTime
    THEN <<[time |-> currentTime]>>
           \o DemoLoop(currentTime + interval, endTime, interval)
    ELSE <<>>

GenerateDemoData(from, to, resolution) ==
    DemoLoop(from \div 1000, to \div 1000, DemoInterval(resolution))

\* convertToUDFFormat: a bar without a (truthy) time is left out
RECURSIVE UdfTimes(_)
UdfTimes(rawBars) ==
    IF rawBars = <<>> THEN <<>>
    ELSE (IF Head(rawBars).time # 0 THEN <<Head(rawBars).time>> ELSE <<>>)
           \o UdfTimes(Tail(rawBars))

ConvertToUDFFormat(rawBars, origin) ==
    IF Len(rawBars) = 0
    THEN [outcome |-> "resolved", s |-> "no_data", t |-> <<>>,
          origin |-> origin]
    ELSE [outcome |-> "resolved", s |-> "ok", t |-> UdfTimes(rawBars),
          origin |-> origin]

\* Array.prototype.reverse
RECURSIVE Reverse(_)
Reverse(seq) ==
    IF seq = <<>> THEN <<>> ELSE Reverse(Tail(seq)) \o <<Head(seq)>>

\* getBybitBars after the response: the rows of result.list, newest first,
\* each a millisecond timestamp
BybitRows(list) ==
    Reverse([k \in 1..Len(list) |-> [time |-> list[k] \div 1000]])

\* the catch block of getBars, with the error rethrown instead
CatchOfGetBars_Rethrows(call) ==
    [outcome |-> "rejected", s |-> "", t |-> <<>>, origin |-> ""]

\* the catch block of getBars: demo data for the same range
CatchOfGetBars(call) ==
    ConvertToUDFFormat(GenerateDemoData(call.from, call.to, call.resolution),
                       "demo")

\* what the SDK asks for
BarSymbols == {[exchange |-> "BYBIT", symbol |-> "BTCUSDT"],
               [exchange |-> "NASDAQ", symbol |-> "AAPL"]}

BarResolutions == {ResString(<<"1">>), ResString(<<"5">>),
                   ResString(<<"1", "D">>), ResString(<<"1", "h">>),
                   ResString(<<"D">>),
                   ResObject("minutes", "5"), ResObject("5", "minutes"),
                   ResNone}

\* from and to, in milliseconds
BarRanges == {<<120000, 420000>>, <<0, 180000>>, <<300000, 300000>>,
              <<420000, 120000>>}

\* bodies of the kline response
BarBodies == {[json |-> FALSE, isNull |-> FALSE, hasList |-> FALSE, list |-> <<>>],
              [json |-> TRUE, isNull |-> TRUE, hasList |-> FALSE, list |-> <<>>],
              [json |-> TRUE, isNull |-> FALSE, hasList |-> FALSE, list |-> <<>>],
              [json |-> TRUE, isNull |-> FALSE, hasList |-> TRUE, list |-> <<>>],
              [json |-> TRUE, isNull |-> FALSE, hasList |-> TRUE,
               list |-> <<300000, 240000, 180000>>],
              [json |-> TRUE, isNull |-> FALSE, hasList |-> TRUE,
               list |-> <<86400000>>]}

\* the promise settles
SettleBars(result, failure) ==
    /\ barsPhase' = "settled"
    /\ barsResult' = result
    /\ barsFailure' = failure

\* getBars up to its first await
GetBars(symbolInfo, resolution, range, firstDataRequest) ==
    /\ barsPhase \in {"idle", "settled"}
    /\ barsCalls < MaxCalls
    /\ barsCalls' = barsCalls + 1
    /\ barsBody' = NoBarsBody
    /\ LET call == [symbolInfo |-> symbolInfo, resolution |-> resolution,
                    from |-> range[1], to |-> range[2],
                    firstDataRequest |-> firstDataRequest]
       IN  /\ barsCall' = call
           /\ IF symbolInfo.exchange = "BYBIT"
              THEN IF resolution.kind = "null"
                   THEN /\ SettleBars(CatchOfGetBars(call), "resolution")
                        /\ UNCHANGED barsRequest
                   ELSE /\ barsPhase' = "fetch"
                        /\ barsRequest' =
                             [symbol |-> symbolInfo.symbol,
                              interval |-> BybitInterval(resolution),
                              ranged |-> ~firstDataRequest,
                              start |-> IF firstDataRequest THEN 0 ELSE call.from,
                              end |-> IF firstDataRequest THEN 0 ELSE call.to]
                        /\ barsResult' = NoBarsResult
                        /\ barsFailure' = "none"
              ELSE /\ SettleBars(ConvertToUDFFormat(
                        GenerateDemoData(call.from, call.to, resolution),
                        "demo"), "none")
                   /\ UNCHANGED barsRequest
    /\ UNCHANGED notBars

\* await fetch(url)
FetchSettles(responds) ==
    /\ barsPhase = "fetch"
    /\ IF responds
       THEN /\ barsPhase' = "json"
            /\ UNCHANGED <<barsResult, barsFailure>>
       ELSE SettleBars(CatchOfGetBars(barsCall), "fetch")
    /\ UNCHANGED <<barsCall, barsRequest, barsBody, barsCalls, notBars>>

\* await response.json(), then the rest of getBybitBars and of getBars
JsonSettles(body) ==
    /\ barsPhase = "json"
    /\ IF ~body.json
       THEN SettleBars(CatchOfGetBars(barsCall), "fetch")
       ELSE IF body.isNull \/ ~body.hasList
            THEN SettleBars(CatchOfGetBars(barsCall), "list")
            ELSE SettleBars(ConvertToUDFFormat(BybitRows(body.list), "bybit"),
                            "none")
    /\ barsBody' = body
    /\ UNCHANGED <<barsCall, barsRequest, barsCalls, notBars>>

BarsNext ==
    \/ \E symbolInfo \in BarSymbols, resolution \in BarResolutions,
          range \in BarRanges, firstDataRequest \in BOOLEAN :
          GetBars(symbolInfo, resolution, range, firstDataRequest)
    \/ \E responds \in BOOLEAN : FetchSettles(responds)
    \/ \E body \in BarBodies : JsonSettles(body)

BarsStart == LedgerInit /\ host = "ChartSDKAdvanced" /\ LifeIdle /\ BarsIdle /\ StreamIdle /\ DemoIdle

SpecBars == BarsStart /\ [][BarsNext]_vars

\* the response is a series of synthetic bars inside the range asked for
SyntheticFor(result, call) ==
    /\ result.origin = "demo"
    /\ \A k \in 1..Len(result.t) :
          /\ call.from \div 1000 <= result.t[k]
          /\ result.t[k] < call.to \div 1000
    /\ (result.s = "no_data") = (call.from \div 1000 >= call.to \div 1000)

\* the response is the rows of the body, oldest first
FetchedFrom(result, body) ==
    /\ result.origin = "bybit"
    /\ Len(result.t) = Len(body.list)
    /\ \A k \in 1..Len(result.t) :
          result.t[k] = body.list[Len(body.list) + 1 - k] \div 1000
    /\ (result.s = "no_data") = (body.list = <<>>)

\* C8: getBars always resolves and never rejects: synthetic bars for a
\* non-BYBIT symbol; for a BYBIT symbol the bars fetched from Bybit, and
\* synthetic bars for the range from..to when the fetch fails, the response
\* has no result.list or the resolution format is invalid.
C8_GetBarsAlwaysResolves ==
    /\ barsResult.outcome # "rejected"
    /\ barsPhase = "settled" =>
          /\ barsResult.outcome = "resolved"
          /\ barsCall.symbolInfo.exchange # "BYBIT" =>
                SyntheticFor(barsResult, barsCall)
          /\ barsCall.symbolInfo.exchange = "BYBIT" =>
                IF barsFailure = "none"
                THEN /\ barsBody.json /\ barsBody.hasList
                     /\ FetchedFrom(barsResult, barsBody)
                ELSE /\ barsFailure \in {"fetch", "list", "resolution"}
                     /\ SyntheticFor(barsResult, barsCall)

\* a BYBIT call whose response had no result.list has resolved with
\* synthetic bars
C8_Witness ==
    /\ barsPhase = "settled"
    /\ barsCall.symbolInfo.exchange = "BYBIT"
    /\ barsFailure = "list"
    /\ barsResult.outcome = "resolved"
    /\ barsResult.s = "ok"
    /\ Len(barsResult.t) > 1

-----------------------------------------------------------------------------
(* The datafeed: subscribeBars / subscribeTicks, the sockets, the timers,    *)
(* destroy. A channel string `publicTrade.<symbol>` is the pair of its two   *)
(* parts; a callback is named by the call that registered it.                *)

\* sockets one datafeed opens in a run
MaxSockets == 2

\* steps of a run that invoke realtime callbacks
MaxDeliveries == 2

\* calls the chart makes on the datafeed in a run
MaxStreamCalls == 4

SubscriberUIDs == {"uid-1", "uid-2"}

StreamSymbols == {[exchange |-> "BYBIT", symbol |-> "BTCUSDT"],
                  [exchange |-> "BYBIT", symbol |-> "ETHUSDT"],
                  [exchange |-> "NASDAQ", symbol |-> "AAPL"]}

CacheNames == {"BYBIT:FUTURE:BTCUSDT"}

\* channelString of subscribeOnStream
ChannelString(symbolInfo) ==
    IF symbolInfo.exchange = "BYBIT"
    THEN <<"publicTrade", symbolInfo.symbol>>
    ELSE <<"demoTrade", symbolInfo.symbol>>

\* the datafeed's streaming fields, as one value
Feed == [map |-> channelToSubscription, demoSocket |-> demoSocket,
         sockets |-> sockets, intervals |-> streamingIntervals,
         timeouts |-> timeouts]

\* Map.prototype.get: the index of the channel's item, 0 if there is none
ItemIndex(map, channelString) ==
    FindIndex({i \in DOMAIN map : map[i].channelString = channelString})

\* socket.send on the datafeed's socket i
SocketSend(F, i, request) ==
    [F EXCEPT !.sockets[i].sent = @ \cup {request}]

\* initializeDemoSocket: with no open socket at hand, a real WebSocket for a
\* BYBIT symbol, a mock socket (always open) for any other
InitializeDemoSocket(F, symbolInfo) ==
    IF F.demoSocket # 0 /\ F.sockets[F.demoSocket].readyState = "OPEN"
    THEN F
    ELSE [F EXCEPT
            !.sockets = Append(@,
               [kind |-> IF symbolInfo.exchange = "BYBIT" THEN "real" ELSE "mock",
                readyState |-> IF symbolInfo.exchange = "BYBIT"
                               THEN "CONNECTING" ELSE "OPEN",
                sent |-> {}, onOpen |-> {}]),
            !.demoSocket = Len(F.sockets) + 1]

\* startChannelStreaming: one interval per channel, the old one cleared
StartChannelStreaming(F, channelString) ==
    [F EXCEPT !.intervals =
        {e \in @ : e.key # channelString}
          \cup {[kind |-> "channel", key |-> channelString]}]

\* the 100 ms timer of sendDemoSubscription for a demo channel
LaterOnSocket(F, channelString) ==
    [F EXCEPT !.timeouts =
        @ \cup {[socket |-> F.demoSocket, channelString |-> channelString]}]

\* a once-only "open" listener that sends the request
OnceOpen(F, i, channelString) ==
    [F EXCEPT !.sockets[i].onOpen = @ \cup {channelString}]

\* sendDemoSubscription
SendDemoSubscription(F, symbolInfo, channelString) ==
    LET isRealBybit == symbolInfo.exchange = "BYBIT"
        socket      == F.sockets[F.demoSocket]
        request     == [op |-> "subscribe", channelString |-> channelString]
    IN  IF socket.readyState = "OPEN"
        THEN IF isRealBybit
             THEN SocketSend(F, F.demoSocket, request)
             ELSE StartChannelStreaming(SocketSend(F, F.demoSocket, request),
                                        channelString)
        ELSE IF socket.readyState = "CONNECTING"
        THEN IF isRealBybit /\ socket.kind = "real"
             THEN OnceOpen(F, F.demoSocket, channelString)
             ELSE LaterOnSocket(F, channelString)
        ELSE IF isRealBybit
             THEN LET G == InitializeDemoSocket(F, symbolInfo)
                  IN  IF G.sockets[G.demoSocket].kind = "real"
                      THEN OnceOpen(G, G.demoSocket, channelString)
                      ELSE G
             ELSE LaterOnSocket(F, channelString)

\* subscribeOnStream
SubscribeOnStream(F, symbolInfo, subscriberUID) ==
    LET G == IF F.demoSocket = 0 THEN InitializeDemoSocket(F, symbolInfo)
             ELSE F
        channelString == ChannelString(symbolInfo)
        handler == [id |-> subscriberUID]
        at == ItemIndex(G.map, channelString)
    IN  IF at # 0
        THEN [G EXCEPT !.map[at].handlers = Append(@, handler)]
        ELSE SendDemoSubscription(
               [G EXCEPT !.map = Append(@,
                  [channelString |-> channelString, symbolInfo |-> symbolInfo,
                   handlers |-> <<handler>>])],
               symbolInfo, channelString)

\* sendDemoUnsubscription
SendDemoUnsubscription(F, channelString) ==
    IF F.demoSocket # 0 /\ F.sockets[F.demoSocket].readyState = "OPEN"
    THEN SocketSend(F, F.demoSocket,
                    [op |-> "unsubscribe", channelString |-> channelString])
    ELSE F

\* unsubscribeFromStream: the first channel, in insertion order, that has a
\* handler with this id loses it, and goes when it was its last one
UnsubscribeFromStream(F, subscriberUID) ==
    LET Has(i) == \E k \in DOMAIN F.map[i].handlers :
                     F.map[i].handlers[k].id = subscriberUID
        at == FindIndex({i \in DOMAIN F.map : Has(i)})
    IN  IF at = 0 THEN F
        ELSE LET item == F.map[at]
                 handlerIndex == FindIndex({k \in DOMAIN item.handlers :
                                    item.handlers[k].id = subscriberUID})
                 rest == SpliceOne(item.handlers, handlerIndex)
             IN  IF rest # <<>>
                 THEN [F EXCEPT !.map[at].handlers = rest]
                 ELSE LET G == SendDemoUnsubscription(F, item.channelString)
                      IN  [G EXCEPT
                             !.map = SpliceOne(@, at),
                             !.intervals =
                                {e \in @ : e.key # item.channelString}]

\* the callbacks of a channel's handlers
HandlerCallbacks(map, channelString) ==
    LET at == ItemIndex(map, channelString)
    IN  IF at = 0 THEN {}
        ELSE {<<"ticks", map[at].handlers[k].id>> :
                 k \in DOMAIN map[at].handlers}

\* a step of the streaming side: the fields, and the callbacks it invoked
StreamStep(F, callbacks) ==
    /\ channelToSubscription' = F.map
    /\ demoSocket' = F.demoSocket
    /\ sockets' = F.sockets
    /\ streamingIntervals' = F.intervals
    /\ timeouts' = F.timeouts
    /\ lastCallbacks' = callbacks
    /\ delivered' = IF callbacks = {} THEN delivered ELSE delivered + 1
    /\ UNCHANGED notStream

\* the chart calls the datafeed only while the datafeed is in use
SubscribeBars(subscriberUID) ==
    /\ ~destroyedFeed /\ streamCalls < MaxStreamCalls
    /\ streamCalls' = streamCalls + 1
    /\ StreamStep([Feed EXCEPT !.intervals =
                      {e \in @ : e.key # <<"uid", subscriberUID>>}
                        \cup {[kind |-> "bars",
                               key |-> <<"uid", subscriberUID>>]}], {})
    /\ UNCHANGED <<symbolCache, searchSymbolController, destroyedFeed>>

UnsubscribeBars(subscriberUID) ==
    /\ ~destroyedFeed /\ streamCalls < MaxStreamCalls
    /\ streamCalls' = streamCalls + 1
    /\ StreamStep([Feed EXCEPT !.intervals =
                      {e \in @ : e.key # <<"uid", subscriberUID>>}], {})
    /\ UNCHANGED <<symbolCache, searchSymbolController, destroyedFeed>>

\* subscribeTicks; a subscriberUID names one subscription at a time
SubscribeTicks(symbolInfo, subscriberUID) ==
    /\ ~destroyedFeed /\ streamCalls < MaxStreamCalls
    /\ streamCalls' = streamCalls + 1
    /\ \A i \in DOMAIN channelToSubscription :
          \A k \in DOMAIN channelToSubscription[i].handlers :
             channelToSubscription[i].handlers[k].id # subscriberUID
    /\ StreamStep(SubscribeOnStream(Feed, symbolInfo, subscriberUID), {})
    /\ UNCHANGED <<symbolCache, searchSymbolController, destroyedFeed>>

UnsubscribeTicks(subscriberUID) ==
    /\ ~destroyedFeed /\ streamCalls < MaxStreamCalls
    /\ streamCalls' = streamCalls + 1
    /\ StreamStep(UnsubscribeFromStream(Feed, subscriberUID), {})
    /\ UNCHANGED <<symbolCache, searchSymbolController, destroyedFeed>>

\* resolveSymbol: the name ends up in the cache
ResolveSymbol(symbolName) ==
    /\ ~destroyedFeed /\ streamCalls < MaxStreamCalls
    /\ streamCalls' = streamCalls + 1
    /\ symbolCache' = symbolCache \cup {symbolName}
    /\ StreamStep(Feed, {})
    /\ UNCHANGED <<searchSymbolController, destroyedFeed>>

\* searchSymbolsFromAPI: the previous search is aborted, a new one starts
SearchSymbols ==
    /\ ~destroyedFeed /\ streamCalls < MaxStreamCalls
    /\ streamCalls' = streamCalls + 1
    /\ searchSymbolController' = "active"
    /\ StreamStep(Feed, {})
    /\ UNCHANGED <<symbolCache, destroyedFeed>>

\* the "open" event of a real WebSocket: the once-only listeners send
SocketOpens(i) ==
    /\ sockets[i].kind = "real" /\ sockets[i].readyState = "CONNECTING"
    /\ StreamStep([Feed EXCEPT
          !.sockets[i].readyState = "OPEN",
          !.sockets[i].sent = @ \cup
             {[op |-> "subscribe", channelString |-> c] :
                 c \in sockets[i].onOpen},
          !.sockets[i].onOpen = {}], {})
    /\ UNCHANGED <<symbolCache, searchSymbolController, destroyedFeed,
                   streamCalls>>

\* the "close" event of a real WebSocket
SocketCloses(i) ==
    /\ sockets[i].kind = "real"
    /\ sockets[i].readyState \in {"CONNECTING", "OPEN"}
    /\ Len(sockets) < MaxSockets
    /\ StreamStep([Feed EXCEPT !.sockets[i].readyState = "CLOSED"], {})
    /\ UNCHANGED <<symbolCache, searchSymbolController, destroyedFeed,
                   streamCalls>>

\* topics Bybit sends on a socket: trades of the channels subscribed on it,
\* and messages without a topic
TopicsOf(socket) ==
    {r.channelString : r \in {q \in socket.sent : q.op = "subscribe"}}
      \cup {<<"", "">>}

\* the "message" event of a real WebSocket: handleBybitMessage and
\* processRealBybitData
SocketMessage(i, topic) ==
    /\ sockets[i].kind = "real" /\ sockets[i].readyState = "OPEN"
    /\ topic \in TopicsOf(sockets[i])
    /\ delivered < MaxDeliveries
    /\ StreamStep(Feed,
          IF topic[1] # "publicTrade" THEN {}
          ELSE HandlerCallbacks(channelToSubscription, topic))
    /\ UNCHANGED <<symbolCache, searchSymbolController, destroyedFeed,
                   streamCalls>>

\* a 2 s interval fires: the bar subscriber's callback, or
\* processDemoTradeData for the channel
IntervalFires(entry) ==
    /\ entry \in streamingIntervals
    /\ delivered < MaxDeliveries
    /\ StreamStep(Feed,
          IF entry.kind = "bars" THEN {<<"bars", entry.key[2]>>}
          ELSE HandlerCallbacks(channelToSubscription, entry.key))
    /\ UNCHANGED <<symbolCache, searchSymbolController, destroyedFeed,
                   streamCalls>>

\* a 100 ms timeout fires: send on the socket it captured (a WebSocket that
\* is still connecting throws), then startChannelStreaming
TimeoutFires(timeout) ==
    /\ timeout \in timeouts
    /\ LET socket == sockets[timeout.socket]
           F == [Feed EXCEPT !.timeouts = @ \ {timeout}]
           request == [op |-> "subscribe",
                       channelString |-> timeout.channelString]
       IN  IF socket.kind = "real" /\ socket.readyState = "CONNECTING"
           THEN StreamStep(F, {})
           ELSE IF socket.readyState = "OPEN"
           THEN StreamStep(StartChannelStreaming(
                   SocketSend(F, timeout.socket, request),
                   timeout.channelString), {})
           ELSE StreamStep(StartChannelStreaming(F, timeout.channelString), {})
    /\ UNCHANGED <<symbolCache, searchSymbolController, destroyedFeed,
                   streamCalls>>

\* destroy: the intervals are cleared, the search aborted, the cache emptied
DestroyFeed ==
    /\ ~destroyedFeed
    /\ destroyedFeed' = TRUE
    /\ searchSymbolController' =
         IF searchSymbolController = "null" THEN "null" ELSE "aborted"
    /\ symbolCache' = {}
    /\ UNCHANGED streamCalls
    /\ StreamStep([Feed EXCEPT !.intervals = {}], {})

StreamNext ==
    \/ \E subscriberUID \in SubscriberUIDs : SubscribeBars(subscriberUID)
    \/ \E subscriberUID \in SubscriberUIDs : UnsubscribeBars(subscriberUID)
    \/ \E symbolInfo \in StreamSymbols, subscriberUID \in SubscriberUIDs :
          SubscribeTicks(symbolInfo, subscriberUID)
    \/ \E subscriberUID \in SubscriberUIDs : UnsubscribeTicks(subscriberUID)
    \/ \E symbolName \in CacheNames : ResolveSymbol(symbolName)
    \/ SearchSymbols
    \/ \E i \in DOMAIN sockets : SocketOpens(i)
    \/ \E i \in DOMAIN sockets : SocketCloses(i)
    \/ \E i \in DOMAIN sockets, topic \in {<<"", "">>}
          \cup {ChannelString(y) : y \in StreamSymbols} : SocketMessage(i, topic)
    \/ \E entry \in streamingIntervals : IntervalFires(entry)
    \/ \E timeout \in timeouts : TimeoutFires(timeout)
    \/ DestroyFeed

StreamStart ==
    LedgerInit /\ host = "ChartSDKAdvanced" /\ LifeIdle /\ BarsIdle /\ StreamIdle /\ DemoIdle

SpecStream == StreamStart /\ [][StreamNext]_vars

\* a subscribe request for the channel has gone out on a real WebSocket, or
\* a real WebSocket that has not opened yet holds a listener that sends it
OnRealSocket(channelString) ==
    \E i \in DOMAIN sockets :
       /\ sockets[i].kind = "real"
       /\ \/ [op |-> "subscribe", channelString |-> channelString]
               \in sockets[i].sent
          \/ /\ sockets[i].readyState # "OPEN"
             /\ channelString \in sockets[i].onOpen

\* C9: whatever was subscribed before, the first subscribeTicks for a BYBIT
\* channel publicTrade.<symbol> makes a subscribe request for that channel
\* go out on a real Bybit WebSocket once that socket is open: every BYBIT
\* channel in the subscription map has had its request sent on a real
\* socket, or waits for a real socket to open.
C9_BybitSubscribeOnRealSocket ==
    \A i \in DOMAIN channelToSubscription :
       channelToSubscription[i].symbolInfo.exchange = "BYBIT" =>
          OnRealSocket(channelToSubscription[i].channelString)

\* C10: once destroy() has returned, no step invokes a realtime callback
\* registered through subscribeBars or subscribeTicks.
C10_NoCallbackAfterDestroy ==
    [][destroyedFeed => lastCallbacks' = {}]_vars

-----------------------------------------------------------------------------
(* The specification of the ledger *)

Init == LedgerInit /\ LifeIdle /\ BarsIdle /\ StreamIdle /\ DemoIdle

Next == LedgerNext

Spec == Init /\ [][Next]_vars

-----------------------------------------------------------------------------
(* The order history under long runs: few inputs, more handlers *)

\* handlers run in one behaviour of the history specification
MaxHistEvents == 5

HistForms == { form \in PanelForms : form.takeProfit > 0 }

HistPlaceMessages ==
    { NestedMessage("buy", 1, "market", 0, 55, 45, <<>>, ETH, 100) }

\* the oldest order of the book
OldestIds(book) == IF book = <<>> THEN {} ELSE { book[1].orderId }

HistCancelMessages(book) ==
    { [NoCancelMessage EXCEPT !.orderId = id] : id \in OldestIds(book) }

HistModifyMessages(book) ==
    { [NoModifyMessage EXCEPT !.orderId = id, !.has = {"price"}, !.price = 60]
        : id \in OldestIds(book) }

HistInit == LedgerInit /\ host = "ChartSDKAdvanced" /\ LifeIdle /\ BarsIdle /\ StreamIdle /\ DemoIdle

HistNext ==
    \/ OnReadyAdvanced
    \/ \E form \in HistForms : clock < MaxHistEvents /\ HandleBuyOrder(form)
    \/ \E form \in HistForms : clock < MaxHistEvents /\ HandleSellOrder(form)
    \/ \E message \in HistPlaceMessages :
          clock < MaxHistEvents /\ PlaceOrderEvent(message)
    \/ \E message \in HistCancelMessages(currentOrderBook) :
          clock < MaxHistEvents /\ CancelOrderEvent(message)
    \/ \E message \in HistModifyMessages(currentOrderBook) :
          clock < MaxHistEvents /\ ModifyOrderEvent(message)
    \/ clock < MaxHistEvents /\ HandleResetBrokerData

SpecHist == HistInit /\ [][HistNext]_vars

-----------------------------------------------------------------------------
(* generateDemoData as a function of its arguments *)

\* supported_resolutions, the label convertIntervalToResolution gives a day,
\* and a Resolution object
DemoResolutions ==
    { ResString(<<"1">>), ResString(<<"5">>), ResString(<<"1", "5">>),
      ResString(<<"3", "0">>), ResString(<<"6", "0">>),
      ResString(<<"2", "4", "0">>), ResString(<<"1", "D">>),
      ResString(<<"1", "W">>), ResString(<<"1", "M">>), ResString(<<"D">>),
      ResObject("1", "days") }

\* from and to, in milliseconds: minutes apart, equal, and two days apart
DemoRanges ==
    { <<0, 180000>>, <<120000, 420000>>, <<60000, 960000>>,
      <<180000, 1980000>>, <<300000, 300000>>, <<0, 172800000>> }

MaxBars == 50

\* the calls whose loop runs at most MaxBars times
DemoCalls ==
    { call \in [from : {r[1] : r \in DemoRanges},
                to : {r[2] : r \in DemoRanges},
                resolution : DemoResolutions] :
        /\ <<call.from, call.to>> \in DemoRanges
        /\ (call.to - call.from) \div 1000
             <= MaxBars * DemoInterval(call.resolution) }

DemoInit ==
    /\ demoCall \in DemoCalls
    /\ demoDone = FALSE
    /\ demoBars = <<>>

\* the call returns its bars
GenerateDemo ==
    /\ ~demoDone
    /\ demoDone' = TRUE
    /\ demoBars' = GenerateDemoData(demoCall.from, demoCall.to,
                                    demoCall.resolution)
    /\ UNCHANGED demoCall
    /\ UNCHANGED notDemo

DemoNext == GenerateDemo

DemoStart ==
    LedgerInit /\ host = "ChartSDKAdvanced" /\ LifeIdle /\ BarsIdle
    /\ StreamIdle /\ DemoInit

SpecDemo == DemoStart /\ [][DemoNext]_vars

\* the duration of a resolution in seconds: a number is minutes, D a day,
\* W a week, M a month of thirty days
ResolutionSeconds(resolution) ==
    IF resolution.kind = "object"
    THEN DigitsValue(<<resolution.scale>>)
         * (CASE resolution.units = "minutes" -> 60
              [] resolution.units = "hours" -> 3600
              [] OTHER -> 86400)
    ELSE LET chars == resolution.chars
             ds    == LeadingDigits(chars)
             count == IF ds = <<>> THEN 1 ELSE DigitsValue(ds)
             unit  == IF Len(ds) = Len(chars) THEN "m" ELSE chars[Len(chars)]
         IN  count * (CASE unit = "m" -> 60
                        [] unit = "D" -> 86400
                        [] unit = "W" -> 604800
                        [] OTHER -> 2592000)

\* C15: the bars of generateDemoData are one resolution period apart from
\* from on: bar k has time from + k * interval for every k with that time
\* before to, the interval being the duration of the resolution in seconds,
\* 86400 for "1D".
C15_DemoBarTimes ==
    demoDone =>
        LET interval  == ResolutionSeconds(demoCall.resolution)
            startTime == demoCall.from \div 1000
            endTime   == demoCall.to \div 1000
            count     == IF endTime <= startTime THEN 0
                         ELSE (endTime - startTime - 1) \div interval + 1
        IN  /\ Len(demoBars) = count
            /\ \A k \in 1..count :
                  demoBars[k].time = startTime + (k - 1) * interval

-----------------------------------------------------------------------------
(* ChartSDKAdvanced: sequences of orders that open, grow, reduce, close and *)
(* flip positions                                                           *)

MaxPosEvents == 4

\* the panel with the quantity field at 2, at 1, and cleared (Number("") is 0)
PosForms ==
    { [quantity |-> q, orderType |-> "market", limitPrice |-> 0,
       stopLoss |-> 0, takeProfit |-> 0] : q \in {0, 1, 2} }

\* PLACE_ORDER messages of the chart for a second symbol, one of them a limit
\* order and one without a size
PosMessages ==
    { NestedMessage("buy", 1, "market", 0, 0, 0, <<>>, ETH, 100),
      NestedMessage("sell", 1, "market", 0, 0, 0, <<>>, ETH, 100),
      NestedMessage("sell", 2, "limit", 50, 0, 0, <<>>, ETH, 100),
      [NoOrderInput EXCEPT !.side = "buy", !.orderType = "market",
                           !.symbol = ETH] }

PosInit == LedgerInit /\ host = "ChartSDKAdvanced" /\ LifeIdle /\ BarsIdle /\ StreamIdle /\ DemoIdle

PosNext ==
    \/ OnReadyAdvanced
    \/ \E form \in PosForms : clock < MaxPosEvents /\ HandleBuyOrder(form)
    \/ \E form \in PosForms : clock < MaxPosEvents /\ HandleSellOrder(form)
    \/ \E message \in PosMessages :
          clock < MaxPosEvents /\ PlaceOrderEvent(message)
    \/ clock < MaxPosEvents /\ HandleResetBrokerData

SpecPos == PosInit /\ [][PosNext]_vars

-----------------------------------------------------------------------------
(* Properties of the ledger *)

\* a handler that places an order has just run with the chart available
PlacedStep ==
    /\ lastEvent'.kind \in {"panel", "place"}
    /\ clock' = clock + 1
    /\ chartWrapperRef = "chart"

\* the message asks for a market order
AsksMarket(m) == ToLowerCase(OrStr(m.order.orderType, m.orderType)) = "market"

\* the take-profit / stop-loss level the message carries
AskedLevel(m, field) == OrNum(m.order[field], m[field])

OppositeSide(side) == IF side = "buy" THEN "sell" ELSE "buy"

\* book holds, at or after index from, an open order of the given type that
\* protects main at the given level
HasLevelOrder(book, from, main, orderType, priceField, level) ==
    \E i \in from..Len(book) :
        /\ book[i].status = "open"
        /\ book[i].orderType = orderType
        /\ book[i].side = OppositeSide(main.side)
        /\ book[i].size = main.size
        /\ book[i].productId = main.productId
        /\ book[i][priceField] = level

\* C1: a market order placed with a positive take profit and/or stop loss,
\* from the trading panel or from PLACE_ORDER, with the chart available,
\* appends one more open order per level that was set: opposite side, same
\* size and productId, a limit order at the take profit, a stop order with
\* the stop loss as stopPrice.
C1_TPSLOrdersAppended ==
    [][ (PlacedStep /\ AsksMarket(lastEvent'.input)) =>
          LET m    == lastEvent'.input
              n    == Len(currentOrderBook)
              main == currentOrderBook'[n + 1]
              tp   == AskedLevel(m, "takeProfit")
              sl   == AskedLevel(m, "stopLoss")
          IN  /\ tp > 0 => HasLevelOrder(currentOrderBook', n + 2, main,
                                         "limit", "price", tp)
              /\ sl > 0 => HasLevelOrder(currentOrderBook', n + 2, main,
                                         "stop", "stopPrice", sl)
              /\ Len(currentOrderBook') =
                   n + 1 + (IF tp > 0 THEN 1 ELSE 0) + (IF sl > 0 THEN 1 ELSE 0)
      ]_vars

NewestFirst(hist) ==
    \A i, j \in 1..Len(hist) : i < j => hist[i].timestamp >= hist[j].timestamp

\* hist2 is hist1 with k entries put at its head and cut to the limit
HeadInserted(hist1, hist2, k) ==
    /\ Len(hist2) = Min(Len(hist1) + k, HistoryLimit)
    /\ \A i \in 1..Len(hist2) :
          IF i <= k THEN hist2[i].timestamp = clock + 1
          ELSE hist2[i] = hist1[i - k]

\* C4: the order history never holds more than 10 entries and is ordered
\* newest first; every handler leaves it empty (reset) or puts its entries
\* at the head and drops the oldest ones beyond 10.
C4_HistoryBounded ==
    /\ [](Len(orderHistory) <= 10 /\ NewestFirst(orderHistory))
    /\ [][ clock' = clock + 1 =>
             \/ lastEvent'.kind = "reset" /\ orderHistory' = <<>>
             \/ \E k \in 0..3 : HeadInserted(orderHistory, orderHistory', k)
         ]_vars

\* ten entries are shown although more than ten orders were recorded since
\* the last reset
C4_Witness ==
    /\ Len(orderHistory) = 10
    /\ Len(currentOrderBook) > 10
    /\ orderHistory[10].timestamp > 0

\* the id a CANCEL_ORDER message carries
AskedCancelId(m) ==
    IF m.orderId # <<>> THEN m.orderId
    ELSE IF m.order.orderId # <<>> THEN m.order.orderId
    ELSE IF m.id # <<>> THEN m.id
    ELSE m.order.id

\* C5: a CANCEL_ORDER whose id matches an order of the book removes exactly
\* one order with that id and records one Cancelled history entry; the other
\* orders, the trade book, the positions and the accounts are unchanged.
C5_CancelRemovesOne ==
    [][ ( /\ lastEvent'.kind = "cancel"
          /\ clock' = clock + 1
          /\ \E i \in 1..Len(currentOrderBook) :
                currentOrderBook[i].orderId = AskedCancelId(lastEvent'.input) )
        =>
        /\ \E i \in 1..Len(currentOrderBook) :
              /\ currentOrderBook[i].orderId = AskedCancelId(lastEvent'.input)
              /\ currentOrderBook' =
                   [j \in 1..(Len(currentOrderBook) - 1) |->
                      IF j < i THEN currentOrderBook[j]
                      ELSE currentOrderBook[j + 1]]
        /\ HeadInserted(orderHistory, orderHistory', 1)
        /\ orderHistory'[1].status = "Cancelled"
        /\ currentTradeBook' = currentTradeBook
        /\ currentPositions' = currentPositions
        /\ currentAccountList' = currentAccountList
      ]_vars

\* an order was cancelled through the order.id field while another order
\* with the same id stays in the book
C5_Witness ==
    /\ lastEvent.kind = "cancel"
    /\ lastEvent.input.order.id # <<>>
    /\ orderHistory # <<>>
    /\ orderHistory[1].status = "Cancelled"
    /\ \E i \in 1..Len(currentOrderBook) :
          currentOrderBook[i].orderId = lastEvent.input.order.id

\* C6: after the reset action of either component, with or without a chart,
\* the order book, the trade book and the positions are empty, the order
\* history of ChartSDKAdvanced is empty, and the account list is unchanged.
C6_ResetClears ==
    [][ (lastEvent'.kind = "reset" /\ clock' = clock + 1) =>
          /\ currentOrderBook' = <<>>
          /\ currentTradeBook' = <<>>
          /\ currentPositions' = <<>>
          /\ orderHistory' = <<>>
          /\ currentAccountList' = currentAccountList
          /\ currentAccountList' = <<DemoAccount>>
      ]_vars

\* a reset of a ledger that had orders and trades, told to the chart
C6_Witness ==
    /\ lastEvent.kind = "reset"
    /\ idCounter > 1
    /\ currentOrderBook = <<>>
    /\ currentPositions = <<>>
    /\ brokerDataSent # <<>>
    /\ brokerDataSent[1].tradeBook = <<>>

\* C7: in ChartSDKAdvanced, with the chart available, the broker data last
\* passed to setBrokerAccounts is the current ledger.
C7_BrokerDataInSync ==
    (host = "ChartSDKAdvanced" /\ chartWrapperRef = "chart") =>
        /\ brokerDataSent # <<>>
        /\ brokerDataSent[1].accountList = currentAccountList
        /\ brokerDataSent[1].orderBook = currentOrderBook
        /\ brokerDataSent[1].tradeBook = currentTradeBook
        /\ brokerDataSent[1].positions = currentPositions

\* a modified order and a take-profit order have reached the chart
C7_Witness ==
    /\ host = "ChartSDKAdvanced"
    /\ chartWrapperRef = "chart"
    /\ lastEvent.kind = "modify"
    /\ brokerDataSent # <<>>
    /\ brokerDataSent[1].positions # <<>>
    /\ \E i \in 1..Len(brokerDataSent[1].orderBook) :
          brokerDataSent[1].orderBook[i].userTag # <<>>
    /\ \E i \in 1..Len(brokerDataSent[1].orderBook) :
          brokerDataSent[1].orderBook[i].price = 60

\* the positions of the list for one (productId, symbol)
PositionsOf(productId, symbol) ==
    { i \in DOMAIN currentPositions :
        /\ currentPositions[i].productId = productId
        /\ currentPositions[i].symbol = symbol }

\* C12: in ChartSDKAdvanced the position list holds only open positions: no
\* position of the list has size 0 (one whose net size returned to zero has
\* been removed), and there is at most one position per (productId, symbol).
C12_OnlyOpenPositions ==
    host = "ChartSDKAdvanced" =>
        \A i \in DOMAIN currentPositions :
            /\ currentPositions[i].size # 0
            /\ PositionsOf(currentPositions[i].productId,
                           currentPositions[i].symbol) = {i}

\* the part of C12 about one position per (productId, symbol)
OnePositionPerPair ==
    \A i \in DOMAIN currentPositions :
        PositionsOf(currentPositions[i].productId, currentPositions[i].symbol) = {i}

\* the filled market orders of the book for one (productId, symbol)
FilledMarketOrders(productId, symbol) ==
    { i \in DOMAIN currentOrderBook :
        /\ currentOrderBook[i].status = "filled"
        /\ ToLowerCase(currentOrderBook[i].orderType) = "market"
        /\ currentOrderBook[i].productId = productId
        /\ currentOrderBook[i].symbol = symbol }

RECURSIVE SumOfSizes(_)
\* the sum of the sizes of the orders of the book at the indexes of the set
SumOfSizes(indexes) ==
    IF indexes = {} THEN 0
    ELSE LET i == CHOOSE j \in indexes : TRUE
         IN  currentOrderBook[i].size + SumOfSizes(indexes \ {i})

\* filled buys minus filled sells for one (productId, symbol)
NetFilled(productId, symbol) ==
    LET filled == FilledMarketOrders(productId, symbol)
    IN  SumOfSizes({i \in filled : currentOrderBook[i].side = "buy"})
        - SumOfSizes({i \in filled : currentOrderBook[i].side = "sell"})

\* the (productId, symbol) pairs of the orders and of the positions
LedgerPairs ==
    { <<currentOrderBook[i].productId, currentOrderBook[i].symbol>> :
        i \in DOMAIN currentOrderBook }
    \cup { <<currentPositions[i].productId, currentPositions[i].symbol>> :
             i \in DOMAIN currentPositions }

====
